---- MODULE Spec2Model ----
(***************************************************************************)
(* Model of the issue-creation utility: create_issues.py (extraction of    *)
(* tasks.yaml, submission of every task and milestone through the gh       *)
(* command, the summary file) and create_missing_issues.py (submission of  *)
(* a fixed table of tasks, update of the summary file).                    *)
(*                                                                         *)
(* Text is modelled as it is: a string is a sequence of one-character      *)
(* strings, a file is a sequence of lines, a line is its indentation, its  *)
(* key token and the text after the key.  The regular expressions of the   *)
(* extractor are modelled by what they match on such lines.                *)
(***************************************************************************)
EXTENDS Integers, Sequences, FiniteSets, TLC

VARIABLES
    pc,             \* position of the running script
    tasks_yaml,     \* the input document: <<>> when it cannot be read, else <<lines>>
    tasks_data,     \* result of parse_yaml_tasks
    phase_i,        \* main: index of the phase being processed
    task_i,         \* main: index of the task being processed in the phase
    ms_i,           \* create_milestone_issues: index of the milestone being processed
    created_issues, \* main: the list created_issues
    milestone_urls, \* create_milestone_issues: the list milestone_urls
    running,        \* the external command in flight: <<>> or <<cmd>>
    gh_calls,       \* the external commands this run has invoked, with their results
    gh_total,       \* number of external commands invoked since the start
    summary_file,   \* github_issues_summary.json: <<>> when absent, else <<content>>
    summary_writes, \* gh_calls lengths at which this run wrote the summary file
    console,        \* what the run printed (one tag per kind of message)
    exit_status,    \* -1 while running, else the exit status of the process
    run,            \* number of the current run of the script
    phase_name,     \* create_github_issue: the phase_name argument (label selection)
    labels          \* create_github_issue: the list labels

vars == <<pc, tasks_yaml, tasks_data, phase_i, task_i, ms_i, created_issues,
          milestone_urls, running, gh_calls, gh_total, summary_file,
          summary_writes, console, exit_status, run, phase_name, labels>>

---------------------------------------------------------------------------
\* Bounds of the model.

\* phase records in a document
MaxPhases == 2
\* task records in one phase
MaxTasks == 3
\* milestone records in a document
MaxMilestones == 2
\* task and milestone records in a document, together
MaxRecords == 4
\* runs of create_issues.py against the same document
MaxRuns == 2
\* entries of the missing_tasks table that are processed
MaxMissing == 3
\* pieces a phase name is put together from
MaxPieces == 3

---------------------------------------------------------------------------
\* Strings.

IsSpace(c) == c = " " \/ c = "\n"

RECURSIVE LStrip(_)
LStrip(s) == IF s = <<>> THEN s
             ELSE IF IsSpace(Head(s)) THEN LStrip(Tail(s)) ELSE s

RECURSIVE RStrip(_)
RStrip(s) == IF s = <<>> THEN s
             ELSE IF IsSpace(s[Len(s)]) THEN RStrip(SubSeq(s, 1, Len(s) - 1)) ELSE s

\* str.strip()
Strip(s) == RStrip(LStrip(s))

\* sub in s
Contains(sub, s) ==
    \E i \in 1..(Len(s) - Len(sub) + 1) : SubSeq(s, i, i + Len(sub) - 1) = sub

RECURSIVE Spaces(_)
Spaces(n) == IF n = 0 THEN <<>> ELSE <<" ">> \o Spaces(n - 1)

\* decimal numeral of a small number, as one character
Digit(n) == ToString(n)

---------------------------------------------------------------------------
\* Lines of tasks.yaml.

Line(ind, key, v) == [ind |-> ind, key |-> key, v |-> v]

KeyChars(key) ==
    CASE key = "project:" -> <<"p","r","o","j","e","c","t",":">>
      [] key = "owner:" -> <<"o","w","n","e","r",":">>
      [] key = "phases:" -> <<"p","h","a","s","e","s",":">>
      [] key = "- name:" -> <<"-"," ","n","a","m","e",":">>
      [] key = "goal:" -> <<"g","o","a","l",":">>
      [] key = "tasks:" -> <<"t","a","s","k","s",":">>
      [] key = "- id:" -> <<"-"," ","i","d",":">>
      [] key = "title:" -> <<"t","i","t","l","e",":">>
      [] key = "description:" -> <<"d","e","s","c","r","i","p","t","i","o","n",":">>
      [] key = "milestones:" -> <<"m","i","l","e","s","t","o","n","e","s",":">>
      [] key = "deliverables:" -> <<"d","e","l","i","v","e","r","a","b","l","e","s",":">>
      [] key = "date:" -> <<"d","a","t","e",":">>
      [] key = "#" -> <<"#">>
      [] OTHER -> <<>>

\* the text that follows the key on its line
AfterKey(l) == IF l.v = <<>> THEN <<>> ELSE <<" ">> \o l.v

\* the whole line, without its line break
LineText(l) == Spaces(l.ind) \o KeyChars(l.key) \o AfterKey(l)

IsBlank(l) == Strip(LineText(l)) = <<>>

RECURSIVE JoinLines(_)
JoinLines(ls) == IF ls = <<>> THEN <<>>
                 ELSE <<"\n">> \o LineText(Head(ls)) \o JoinLines(Tail(ls))

\* the text from the end of the key of line i to the end of the block
TextAfter(block, i) == AfterKey(block[i]) \o JoinLines(SubSeq(block, i + 1, Len(block)))

\* the lines of that text: the rest of line i, then the lines that follow
LinesAfter(block, i) ==
    <<AfterKey(block[i])>> \o [j \in 1..(Len(block) - i) |-> LineText(block[i + j])]

Min(S) == CHOOSE x \in S : \A y \in S : x <= y

---------------------------------------------------------------------------
\* The regular expressions of parse_yaml_tasks, on lines.

\* index of the first line, from index `from` on, with this key; 0 when none
FirstKey(ls, key, from) ==
    LET idx == {i \in from..Len(ls) : ls[i].key = key}
    IN IF idx = {} THEN 0 ELSE Min(idx)

\* re.search(r'key:\s*([^\n]+)', text) and .group(1).strip(), '' when no match:
\* \s* runs over line breaks too, so the capture is the first text after the
\* key that is not white space, up to the end of its line
SingleLine(ls, key, from) ==
    LET i == FirstKey(ls, key, from) IN
    IF i = 0 THEN <<>>
    ELSE LET rest == LinesAfter(ls, i)
             nb == {j \in 1..Len(rest) : Strip(rest[j]) # <<>>}
         IN IF nb = {} THEN <<>> ELSE Strip(rest[Min(nb)])

\* re.search(r'description:\s*([^\n]+(?:\n[^\n]*)*?)(?=\n      - id:|$)', block,
\* re.DOTALL) and .group(1).strip(): a block holds no further record marker,
\* so the capture runs to the end of the block
MultiLine(ls, key, from) ==
    LET i == FirstKey(ls, key, from) IN
    IF i = 0 THEN <<>> ELSE Strip(TextAfter(ls, i))

RECURSIVE DropBlank(_)
DropBlank(ls) == IF ls = <<>> THEN ls
                 ELSE IF IsBlank(Head(ls)) THEN DropBlank(Tail(ls)) ELSE ls

\* re.search(r'header:\s*\n(.*?)(?=stop|$)', text, re.DOTALL).group(1): the text
\* after the first header line, up to the first `stop` key after it ("$" when the
\* pattern names none that the text can hold) or to the end.  \s*\n is greedy:
\* it takes every blank line that follows the header, so the group starts at
\* the first line that is not blank.  No match gives no lines.
Section(ls, header, stop) ==
    LET hs == {i \in 1..Len(ls) : ls[i].key = header /\ Strip(AfterKey(ls[i])) = <<>>} IN
    IF hs = {} THEN <<>>
    ELSE LET h == Min(hs)
             es == {i \in (h + 1)..Len(ls) : ls[i].key = stop}
             e == IF es = {} THEN Len(ls) + 1 ELSE Min(es)
         IN DropBlank(SubSeq(ls, h + 1, e - 1))

\* a record marker: a line break, the indentation, the key
IsMarker(ls, i, ind, key) == i > 1 /\ ls[i].ind = ind /\ ls[i].key = key

\* index of the next marker from index `from` on, Len(ls) + 1 when none
NextMarker(ls, ind, key, from) ==
    LET idx == {i \in from..Len(ls) : IsMarker(ls, i, ind, key)}
    IN IF idx = {} THEN Len(ls) + 1 ELSE Min(idx)

\* re.split(r'\n<indentation>key', text) without its first block (the loops
\* skip block 0): each block is a marker's line and the lines up to the next
\* marker.  A marker needs the line break before it: the first line of the text
\* is none, and stays in block 0.
RECURSIVE SplitRecords(_, _, _, _)
SplitRecords(ls, ind, key, from) ==
    LET s == NextMarker(ls, ind, key, from) IN
    IF s > Len(ls) THEN <<>>
    ELSE LET e == NextMarker(ls, ind, key, s + 1)
         IN <<SubSeq(ls, s, e - 1)>> \o SplitRecords(ls, ind, key, e)

\* re.search(r'^([^\n]+)', block) and .group(1).strip(): the rest of the
\* marker's line
FirstLine(block) == Strip(AfterKey(block[1]))

\* the filter without its test of the title
RetainedWithId(r) == r.id # <<>>

\* if task['id'] and task['title'] / if milestone['id'] and milestone['title']
Retained(r) == r.id # <<>> /\ r.title # <<>>

\* the task built from one block of the tasks section
ParseTask(block) ==
    [id |-> FirstLine(block),
     title |-> SingleLine(block, "title:", 2),
     description |-> MultiLine(block, "description:", 2)]

\* the milestone built from one block of the milestones section
ParseMilestone(block) ==
    [id |-> FirstLine(block),
     title |-> SingleLine(block, "title:", 2),
     deliverables |-> SingleLine(block, "deliverables:", 2),
     date |-> SingleLine(block, "date:", 2)]

\* the blocks of the tasks section of a phase block
TaskBlocks(block) == SplitRecords(Section(block, "tasks:", "$"), 6, "- id:", 1)

\* the phase built from one block of the phases section
ParsePhase(block) ==
    LET bs == TaskBlocks(block) IN
    [name |-> FirstLine(block),
     goal |-> SingleLine(block, "goal:", 2),
     tasks |-> SelectSeq([j \in 1..Len(bs) |-> ParseTask(bs[j])], Retained)]

\* if phase['name']
NamedPhase(p) == p.name # <<>>

PhaseBlocks(content) == SplitRecords(Section(content, "phases:", "milestones:"), 2, "- name:", 1)

MilestoneBlocks(content) == SplitRecords(Section(content, "milestones:", "$"), 2, "- id:", 1)

\* parse_yaml_tasks on a document that was read
parse_yaml_tasks(content) ==
    LET pb == PhaseBlocks(content)
        mb == MilestoneBlocks(content)
    IN [project |-> SingleLine(content, "project:", 1),
        owner |-> SingleLine(content, "owner:", 1),
        phases |-> SelectSeq([i \in 1..Len(pb) |-> ParsePhase(pb[i])], NamedPhase),
        milestones |-> SelectSeq([i \in 1..Len(mb) |-> ParseMilestone(mb[i])], Retained)]

\* tasks_data before extraction
NoData == [project |-> <<>>, owner |-> <<>>, phases |-> <<>>, milestones |-> <<>>]

---------------------------------------------------------------------------
\* The documents the model reads.

TaskId(p, t) == <<"E", Digit(p), "-", "T", Digit(t)>>
MilestoneId(m) == <<"M", Digit(m)>>
TitleOf(id) == <<"D", "o", " ">> \o id
PhaseName(p) == <<"E", "p", "i", "c", " ", Digit(p)>>
GoalText == <<"g", "o", "a", "l">>
DescText == <<"d", "e", "s", "c">>
DelivText == <<"d", "o", "c", "s">>
DateText == <<"2", "0", "2", "6">>
ProjectText == <<"M", "V", "P">>
OwnerText == <<"O", "p", "s">>

\* what follows a section header: the first record, a blank line, a comment
Gap == {"none", "blank", "comment"}

GapLines(g, ind) ==
    CASE g = "none" -> <<>>
      [] g = "blank" -> <<Line(0, "", <<>>)>>
      [] g = "comment" -> <<Line(ind, "#", <<"c">>)>>

\* how a record is written: every field, no optional field, no title line, a
\* title line without a value, an id without a value
Shape == {"full", "bare", "notitle", "emptytitle", "emptyid"}

TaskLines(id, shape) ==
    CASE shape = "full" -> <<Line(6, "- id:", id), Line(8, "title:", TitleOf(id)),
                             Line(8, "description:", DescText)>>
      [] shape = "bare" -> <<Line(6, "- id:", id), Line(8, "title:", TitleOf(id))>>
      [] shape = "notitle" -> <<Line(6, "- id:", id), Line(8, "description:", DescText)>>
      [] shape = "emptytitle" -> <<Line(6, "- id:", id), Line(8, "title:", <<>>),
                                   Line(8, "description:", DescText)>>
      [] shape = "emptyid" -> <<Line(6, "- id:", <<>>), Line(8, "title:", TitleOf(id)),
                                Line(8, "description:", DescText)>>

MilestoneLines(id, shape) ==
    CASE shape = "full" -> <<Line(2, "- id:", id), Line(4, "title:", TitleOf(id)),
                             Line(4, "deliverables:", DelivText), Line(4, "date:", DateText)>>
      [] shape = "bare" -> <<Line(2, "- id:", id), Line(4, "title:", TitleOf(id))>>
      [] shape = "notitle" -> <<Line(2, "- id:", id), Line(4, "deliverables:", DelivText),
                                Line(4, "date:", DateText)>>
      [] shape = "emptytitle" -> <<Line(2, "- id:", id), Line(4, "title:", <<>>),
                                   Line(4, "deliverables:", DelivText)>>
      [] shape = "emptyid" -> <<Line(2, "- id:", <<>>), Line(4, "title:", TitleOf(id)),
                                Line(4, "date:", DateText)>>

RECURSIVE Flatten(_)
Flatten(ss) == IF ss = <<>> THEN <<>> ELSE Head(ss) \o Flatten(Tail(ss))

PhaseLines(p, gapT, shapes) ==
    <<Line(2, "- name:", PhaseName(p)), Line(4, "goal:", GoalText), Line(4, "tasks:", <<>>)>>
    \o GapLines(gapT, 6)
    \o Flatten([t \in 1..Len(shapes) |-> TaskLines(TaskId(p, t), shapes[t])])

\* a document: phases[p] is the shapes of the tasks of phase p, ms the shapes of
\* the milestones
Doc(gapP, gapT, gapM, phases, hasM, ms) ==
    <<Line(0, "project:", ProjectText), Line(0, "owner:", OwnerText), Line(0, "phases:", <<>>)>>
    \o GapLines(gapP, 2)
    \o Flatten([p \in 1..Len(phases) |-> PhaseLines(p, gapT, phases[p])])
    \o (IF hasM
        THEN <<Line(0, "milestones:", <<>>)>> \o GapLines(gapM, 2)
             \o Flatten([m \in 1..Len(ms) |-> MilestoneLines(MilestoneId(m), ms[m])])
        ELSE <<>>)

SeqsUpTo(S, n) == UNION {[1..k -> S] : k \in 0..n}

RECURSIVE SumLen(_)
SumLen(ss) == IF ss = <<>> THEN 0 ELSE Len(Head(ss)) + SumLen(Tail(ss))

\* documents whose records have every field, with any line after each header
WellFormedDocs ==
    {Doc(x[1], x[2], x[3], x[4], TRUE, x[5]) :
        x \in {y \in Gap \X Gap \X Gap
                     \X SeqsUpTo(SeqsUpTo({"full"}, MaxTasks), MaxPhases)
                     \X SeqsUpTo({"full"}, MaxMilestones) :
               SumLen(y[4]) + Len(y[5]) <= MaxRecords}}

\* documents of one phase whose records are written in any shape
RaggedDocs ==
    {Doc(x[1], x[1], x[1], <<x[2]>>, x[3], x[4]) :
        x \in {y \in {"none", "comment"} \X SeqsUpTo(Shape, MaxTasks) \X BOOLEAN
                     \X SeqsUpTo(Shape, MaxMilestones) :
               /\ Len(y[2]) + Len(y[4]) <= MaxRecords
               /\ (~y[3] => y[4] = <<>>)}}

---------------------------------------------------------------------------
\* create_issues.py: extraction.

\* the state of a script that has not started
Fresh ==
    /\ pc = "start"
    /\ tasks_data = NoData
    /\ phase_i = 0 /\ task_i = 0 /\ ms_i = 0
    /\ created_issues = <<>> /\ milestone_urls = <<>>
    /\ running = <<>> /\ gh_calls = <<>> /\ gh_total = 0
    /\ summary_writes = <<>> /\ console = <<>>
    /\ exit_status = -1 /\ run = 1
    /\ phase_name = <<>> /\ labels = <<>>

\* main, line 246: parse_yaml_tasks returns the extracted model
Extract ==
    /\ pc = "start" /\ tasks_yaml # <<>>
    /\ tasks_data' = parse_yaml_tasks(tasks_yaml[1])
    /\ console' = console \o <<"Creating GitHub issues for">>
    /\ pc' = "phases"
    /\ phase_i' = 1 /\ task_i' = 1
    /\ UNCHANGED <<tasks_yaml, ms_i, created_issues, milestone_urls, running, gh_calls,
                   gh_total, summary_file, summary_writes, exit_status, run,
                   phase_name, labels>>

\* the error is printed but the process goes on, with an empty model
ExtractFailGoesOn ==
    /\ pc = "start" /\ tasks_yaml = <<>>
    /\ console' = console \o <<"Error loading tasks file">>
    /\ pc' = "phases"
    /\ phase_i' = 1 /\ task_i' = 1
    /\ UNCHANGED <<tasks_yaml, tasks_data, ms_i, created_issues, milestone_urls, running,
                   gh_calls, gh_total, summary_file, summary_writes, exit_status, run,
                   phase_name, labels>>

\* parse_yaml_tasks, lines 122-124: the document cannot be read; the error is
\* printed and sys.exit(1) ends the process
ExtractFail ==
    /\ pc = "start" /\ tasks_yaml = <<>>
    /\ console' = console \o <<"Error loading tasks file">>
    /\ exit_status' = 1
    /\ pc' = "exited"
    /\ UNCHANGED <<tasks_yaml, tasks_data, phase_i, task_i, ms_i, created_issues,
                   milestone_urls, running, gh_calls, gh_total, summary_file,
                   summary_writes, run, phase_name, labels>>

---------------------------------------------------------------------------
\* create_issues.py: create_github_issue and create_milestone_issues.

Epic(n) == <<"E", "p", "i", "c", " ", Digit(n)>>

\* the table tested from its last marker to its first
LabelsForLastMatch(name) ==
    <<"task">> \o
    (IF Contains(Epic(8), name) THEN <<"epic-8", "documentation", "demo">>
     ELSE IF Contains(Epic(7), name) THEN <<"epic-7", "testing", "validation">>
     ELSE IF Contains(Epic(6), name) THEN <<"epic-6", "infrastructure", "ci-cd">>
     ELSE IF Contains(Epic(5), name) THEN <<"epic-5", "ui", "frontend">>
     ELSE IF Contains(Epic(4), name) THEN <<"epic-4", "observability", "monitoring">>
     ELSE IF Contains(Epic(3), name) THEN <<"epic-3", "agent-definition", "deployment">>
     ELSE IF Contains(Epic(2), name) THEN <<"epic-2", "node-runtime", "connectors">>
     ELSE IF Contains(Epic(1), name) THEN <<"epic-1", "control-plane", "api">>
     ELSE <<>>)

\* create_github_issue, lines 155-171: the label list for a phase name
LabelsFor(name) ==
    <<"task">> \o
    (IF Contains(Epic(1), name) THEN <<"epic-1", "control-plane", "api">>
     ELSE IF Contains(Epic(2), name) THEN <<"epic-2", "node-runtime", "connectors">>
     ELSE IF Contains(Epic(3), name) THEN <<"epic-3", "agent-definition", "deployment">>
     ELSE IF Contains(Epic(4), name) THEN <<"epic-4", "observability", "monitoring">>
     ELSE IF Contains(Epic(5), name) THEN <<"epic-5", "ui", "frontend">>
     ELSE IF Contains(Epic(6), name) THEN <<"epic-6", "infrastructure", "ci-cd">>
     ELSE IF Contains(Epic(7), name) THEN <<"epic-7", "testing", "validation">>
     ELSE IF Contains(Epic(8), name) THEN <<"epic-8", "documentation", "demo">>
     ELSE <<>>)

\* main, lines 248-251
ProjectInfo(td) == [project |-> td.project, owner |-> td.owner]

\* create_github_issue, lines 129-179: the command for a task.  The body is the
\* template's embedded fields, in their order in the template.
TaskCmd(task, name, info) ==
    [title |-> <<"[">> \o task.id \o <<"]", " ">> \o task.title,
     body |-> <<task.description, name, info.project, info.owner, task.id>>,
     label |-> LabelsFor(name)]

MilestoneDefault == <<"M", "i", "l", "e", "s", "t", "o", "n", "e">>

\* create_milestone_issues, lines 198-229: the command for a milestone
MilestoneCmd(m, info) ==
    [title |-> <<"[", "M", "I", "L", "E", "S", "T", "O", "N", "E", "]", " ">> \o m.title,
     body |-> <<MilestoneDefault, m.deliverables, m.date, info.project, info.owner, m.id>>,
     label |-> <<"milestone", "epic">>]

\* the reference the tracker prints for the n-th command it is given
Url(n) == <<"u", "r", "l", "/", Digit(n)>>

\* what a command that exits with status zero can have written to its standard
\* output: nothing, or the reference and a line break
Stdouts(n) == {<<>>, Url(n) \o <<"\n">>}

\* if issue_url: of a returned value, <<>> for None and <<s>> for the string s
Truthy(r) == r # <<>> /\ r[1] # <<>>

Call(kind, id, cmd) == [kind |-> kind, id |-> id, cmd |-> cmd]

Done(c, rc, out) == [kind |-> c.kind, id |-> c.id, cmd |-> c.cmd, rc |-> rc, out |-> out]

CurPhase == tasks_data.phases[phase_i]

InPhase == pc = "phases" /\ phase_i <= Len(tasks_data.phases)

\* main, line 265 to create_github_issue, line 182: the next task of the phase is
\* formatted and the command started; the process waits for it
TaskCall ==
    /\ InPhase /\ task_i <= Len(CurPhase.tasks)
    /\ LET task == CurPhase.tasks[task_i] IN
       running' = <<Call("task", task.id,
                         TaskCmd(task, CurPhase.name, ProjectInfo(tasks_data)))>>
    /\ gh_total' = gh_total + 1
    /\ pc' = "task_wait"
    /\ UNCHANGED <<tasks_yaml, tasks_data, phase_i, task_i, ms_i, created_issues,
                   milestone_urls, gh_calls, summary_file, summary_writes, console,
                   exit_status, run, phase_name, labels>>

\* the record main appends for a task, lines 268-272
IssueRecord(task, url) == [task_id |-> task.id, title |-> task.title, url |-> url]

\* main, lines 266-272, on the value create_github_issue returned
Recorded(issues, task, ret) ==
    IF Truthy(ret) THEN Append(issues, IssueRecord(task, ret[1])) ELSE issues

\* create_github_issue, lines 182-186, and main, lines 267-272: the command
\* exited with status zero; its output, stripped, is returned
TaskReturnOk ==
    /\ pc = "task_wait"
    /\ \E out \in Stdouts(gh_total) :
         /\ gh_calls' = Append(gh_calls, Done(running[1], 0, out))
         /\ created_issues' = Recorded(created_issues, CurPhase.tasks[task_i], <<Strip(out)>>)
    /\ console' = console \o <<"Created issue">>
    /\ running' = <<>>
    /\ task_i' = task_i + 1
    /\ pc' = "phases"
    /\ UNCHANGED <<tasks_yaml, tasks_data, phase_i, ms_i, milestone_urls, gh_total,
                   summary_file, summary_writes, exit_status, run, phase_name, labels>>

\* the failure of the command ends the process
TaskReturnFailRaises ==
    /\ pc = "task_wait"
    /\ gh_calls' = Append(gh_calls, Done(running[1], 1, <<>>))
    /\ console' = console \o <<"Error creating issue">>
    /\ running' = <<>>
    /\ exit_status' = 1
    /\ pc' = "exited"
    /\ UNCHANGED <<tasks_yaml, tasks_data, phase_i, task_i, ms_i, created_issues,
                   milestone_urls, gh_total, summary_file, summary_writes, run,
                   phase_name, labels>>

\* create_github_issue, lines 187-191: the command exited with another status
\* (CalledProcessError); None is returned
TaskReturnFail ==
    /\ pc = "task_wait"
    /\ gh_calls' = Append(gh_calls, Done(running[1], 1, <<>>))
    /\ created_issues' = Recorded(created_issues, CurPhase.tasks[task_i], <<>>)
    /\ console' = console \o <<"Error creating issue">>
    /\ running' = <<>>
    /\ task_i' = task_i + 1
    /\ pc' = "phases"
    /\ UNCHANGED <<tasks_yaml, tasks_data, phase_i, ms_i, milestone_urls, gh_total,
                   summary_file, summary_writes, exit_status, run, phase_name, labels>>

\* the next phase starts at the task index the last phase ended with
NextPhaseKeepsIndex ==
    /\ InPhase /\ task_i > Len(CurPhase.tasks)
    /\ phase_i' = phase_i + 1
    /\ UNCHANGED <<pc, tasks_yaml, tasks_data, task_i, ms_i, created_issues,
                   milestone_urls, running, gh_calls, gh_total, summary_file,
                   summary_writes, console, exit_status, run, phase_name, labels>>

\* main, line 260: the tasks of the phase are done, the next phase starts
NextPhase ==
    /\ InPhase /\ task_i > Len(CurPhase.tasks)
    /\ phase_i' = phase_i + 1
    /\ task_i' = 1
    /\ UNCHANGED <<pc, tasks_yaml, tasks_data, ms_i, created_issues, milestone_urls,
                   running, gh_calls, gh_total, summary_file, summary_writes, console,
                   exit_status, run, phase_name, labels>>

\* main, lines 275-277, and create_milestone_issues, line 195: the phases are
\* done ('milestones' is always a key of tasks_data)
StartMilestones ==
    /\ pc = "phases" /\ phase_i > Len(tasks_data.phases)
    /\ milestone_urls' = <<>>
    /\ ms_i' = 1
    /\ pc' = "milestones"
    /\ UNCHANGED <<tasks_yaml, tasks_data, phase_i, task_i, created_issues, running,
                   gh_calls, gh_total, summary_file, summary_writes, console,
                   exit_status, run, phase_name, labels>>

\* create_milestone_issues, lines 197-232: the next milestone is formatted and
\* the command started
MilestoneCall ==
    /\ pc = "milestones" /\ ms_i <= Len(tasks_data.milestones)
    /\ LET m == tasks_data.milestones[ms_i] IN
       running' = <<Call("milestone", m.id, MilestoneCmd(m, ProjectInfo(tasks_data)))>>
    /\ gh_total' = gh_total + 1
    /\ pc' = "milestone_wait"
    /\ UNCHANGED <<tasks_yaml, tasks_data, phase_i, task_i, ms_i, created_issues,
                   milestone_urls, gh_calls, summary_file, summary_writes, console,
                   exit_status, run, phase_name, labels>>

\* create_milestone_issues, lines 232-236: the command exited with status zero;
\* its output, stripped, is appended
MilestoneReturnOk ==
    /\ pc = "milestone_wait"
    /\ \E out \in Stdouts(gh_total) :
         /\ gh_calls' = Append(gh_calls, Done(running[1], 0, out))
         /\ milestone_urls' = Append(milestone_urls, Strip(out))
    /\ console' = console \o <<"Created milestone">>
    /\ running' = <<>>
    /\ ms_i' = ms_i + 1
    /\ pc' = "milestones"
    /\ UNCHANGED <<tasks_yaml, tasks_data, phase_i, task_i, created_issues, gh_total,
                   summary_file, summary_writes, exit_status, run, phase_name, labels>>

\* create_milestone_issues, lines 237-240: the command exited with another status
MilestoneReturnFail ==
    /\ pc = "milestone_wait"
    /\ gh_calls' = Append(gh_calls, Done(running[1], 1, <<>>))
    /\ console' = console \o <<"Error creating milestone">>
    /\ running' = <<>>
    /\ ms_i' = ms_i + 1
    /\ pc' = "milestones"
    /\ UNCHANGED <<tasks_yaml, tasks_data, phase_i, task_i, created_issues,
                   milestone_urls, gh_total, summary_file, summary_writes, exit_status,
                   run, phase_name, labels>>

\* the content of github_issues_summary.json: whether it parses as JSON, the
\* keys of its object, and their values
Summary(info, issues, urls) ==
    [parseable |-> TRUE, keys |-> {"project", "created_issues", "milestone_urls"},
     project |-> info, created_issues |-> issues, milestone_urls |-> urls]

\* the file opened to append: the lists of an earlier summary stay in front
WrittenAppending(old, new) ==
    IF old = <<>> THEN <<new>>
    ELSE <<[new EXCEPT !.created_issues = old[1].created_issues \o @,
                       !.milestone_urls = old[1].milestone_urls \o @]>>

\* open(..., 'w') and json.dump, lines 291-292: the file holds the new content
\* only
Written(old, new) == <<new>>

\* main, lines 279-295: the summary is printed and written, main returns and the
\* process exits with status zero
WriteSummary ==
    /\ pc = "milestones" /\ ms_i > Len(tasks_data.milestones)
    /\ summary_file' = Written(summary_file,
                               Summary(ProjectInfo(tasks_data), created_issues, milestone_urls))
    /\ summary_writes' = Append(summary_writes, Len(gh_calls))
    /\ console' = console \o <<"Summary saved">>
    /\ exit_status' = 0
    /\ pc' = "done"
    /\ UNCHANGED <<tasks_yaml, tasks_data, phase_i, task_i, ms_i, created_issues,
                   milestone_urls, running, gh_calls, gh_total, run, phase_name, labels>>

\* the script is started again: a new process, the same files
Rerun ==
    /\ pc = "done" /\ run < MaxRuns
    /\ pc' = "start"
    /\ tasks_data' = NoData
    /\ phase_i' = 0 /\ task_i' = 0 /\ ms_i' = 0
    /\ created_issues' = <<>> /\ milestone_urls' = <<>>
    /\ gh_calls' = <<>>
    /\ summary_writes' = <<>> /\ console' = <<>>
    /\ exit_status' = -1
    /\ run' = run + 1
    /\ UNCHANGED <<tasks_yaml, running, gh_total, summary_file, phase_name, labels>>

\* a summary file an earlier run left
OldSummary ==
    Summary([project |-> ProjectText, owner |-> OwnerText],
            <<[task_id |-> TaskId(9, 9), title |-> TitleOf(TaskId(9, 9)), url |-> Url(0)]>>,
            <<Url(0)>>)

Init ==
    /\ Fresh
    /\ tasks_yaml \in {<<>>} \cup {<<d>> : d \in WellFormedDocs}
    /\ summary_file \in {<<>>, <<OldSummary>>}

Next ==
    \/ Extract
    \/ ExtractFail
    \/ TaskCall
    \/ TaskReturnOk
    \/ TaskReturnFail
    \/ NextPhase
    \/ StartMilestones
    \/ MilestoneCall
    \/ MilestoneReturnOk
    \/ MilestoneReturnFail
    \/ WriteSummary

\* one run of create_issues.py
Spec == Init /\ [][Next]_vars

\* what main does once the model is extracted
Proceed ==
    \/ TaskCall
    \/ TaskReturnOk
    \/ TaskReturnFail
    \/ NextPhase
    \/ StartMilestones
    \/ MilestoneCall
    \/ MilestoneReturnOk
    \/ MilestoneReturnFail
    \/ WriteSummary

\* one run of create_issues.py in which, after extraction, the process keeps
\* running and every started command returns
FairSpec == Spec /\ WF_vars(Proceed)

InitRerun ==
    /\ Fresh
    /\ tasks_yaml \in {<<d>> : d \in WellFormedDocs}
    /\ summary_file \in {<<>>, <<OldSummary>>}

NextRerun ==
    \/ Extract
    \/ TaskCall
    \/ TaskReturnOk
    \/ NextPhase
    \/ StartMilestones
    \/ MilestoneCall
    \/ MilestoneReturnOk
    \/ WriteSummary
    \/ Rerun

\* runs of create_issues.py, one after the other, with a command that always
\* exits with status zero
SpecRerun == InitRerun /\ [][NextRerun]_vars

\* extraction alone, on every document of the model
InitParse ==
    /\ Fresh
    /\ tasks_yaml \in {<<>>} \cup {<<d>> : d \in WellFormedDocs \cup RaggedDocs}
    /\ summary_file = <<>>

NextParse == Extract \/ ExtractFail

SpecParse == InitParse /\ [][NextParse]_vars

---------------------------------------------------------------------------
\* create_issues.py: the label selection of create_github_issue, alone.

\* the pieces phase names are put together from
Pieces ==
    {Epic(1), Epic(2), Epic(3), Epic(8), <<"E", "p", "i", "c", " ">>, <<"3">>,
     <<" ", "-", " ">>, <<"e", "p", "i", "c", " ", "3">>}

PhaseNames == {Flatten(ps) : ps \in SeqsUpTo(Pieces, MaxPieces)}

\* create_github_issue, lines 155-171, for the phase name it is given
SelectLabels ==
    /\ pc = "start"
    /\ labels' = LabelsFor(phase_name)
    /\ pc' = "labelled"
    /\ UNCHANGED <<tasks_yaml, tasks_data, phase_i, task_i, ms_i, created_issues,
                   milestone_urls, running, gh_calls, gh_total, summary_file,
                   summary_writes, console, exit_status, run, phase_name>>

InitLabels ==
    /\ pc = "start"
    /\ tasks_yaml = <<>> /\ tasks_data = NoData
    /\ phase_i = 0 /\ task_i = 0 /\ ms_i = 0
    /\ created_issues = <<>> /\ milestone_urls = <<>>
    /\ running = <<>> /\ gh_calls = <<>> /\ gh_total = 0
    /\ summary_file = <<>> /\ summary_writes = <<>> /\ console = <<>>
    /\ exit_status = -1 /\ run = 1
    /\ phase_name \in PhaseNames
    /\ labels = <<>>

NextLabels == SelectLabels

SpecLabels == InitLabels /\ [][NextLabels]_vars

---------------------------------------------------------------------------
\* create_missing_issues.py.

\* the table missing_tasks, lines 7-28: the id, the title and the labels of each
\* entry (the description and the epic of an entry reach only the body)
missing_tasks ==
    <<
     [id |-> <<"E", "1", "-", "T", "2">>,
      title |-> <<"I", "n", "t", "e", "g", "r", "a", "t", "e", " ", "M", "i", "c", "r", "o", "s", "o", "f", "t", " ", "A", "g", "e", "n", "t", " ", "F", "r", "a", "m", "e", "w", "o", "r", "k", " ", "S", "D", "K">>,
      labels |-> "task,epic-1,control-plane,api"],
     [id |-> <<"E", "1", "-", "T", "3">>,
      title |-> <<"D", "a", "t", "a", "b", "a", "s", "e", " ", "s", "e", "t", "u", "p">>,
      labels |-> "task,epic-1,control-plane,api"],
     [id |-> <<"E", "1", "-", "T", "4">>,
      title |-> <<"R", "e", "d", "i", "s", " ", "i", "n", "t", "e", "g", "r", "a", "t", "i", "o", "n">>,
      labels |-> "task,epic-1,control-plane,api"],
     [id |-> <<"E", "1", "-", "T", "5">>,
      title |-> <<"N", "A", "T", "S", " ", "s", "e", "t", "u", "p">>,
      labels |-> "task,epic-1,control-plane,api"],
     [id |-> <<"E", "1", "-", "T", "6">>,
      title |-> <<"g", "R", "P", "C", " ", "s", "e", "r", "v", "i", "c", "e", " ", "c", "o", "n", "t", "r", "a", "c", "t">>,
      labels |-> "task,epic-1,control-plane,api"],
     [id |-> <<"E", "1", "-", "T", "7">>,
      title |-> <<"S", "c", "h", "e", "d", "u", "l", "e", "r", " ", "s", "e", "r", "v", "i", "c", "e">>,
      labels |-> "task,epic-1,control-plane,api"],
     [id |-> <<"E", "1", "-", "T", "8">>,
      title |-> <<"O", "p", "e", "n", "T", "e", "l", "e", "m", "e", "t", "r", "y", " ", "w", "i", "r", "i", "n", "g">>,
      labels |-> "task,epic-1,control-plane,api"],
     [id |-> <<"E", "1", "-", "T", "9">>,
      title |-> <<"A", "u", "t", "h", "e", "n", "t", "i", "c", "a", "t", "i", "o", "n", " ", "s", "e", "t", "u", "p">>,
      labels |-> "task,epic-1,control-plane,api"],
     [id |-> <<"E", "1", "-", "T", "1", "0">>,
      title |-> <<"C", "o", "n", "t", "a", "i", "n", "e", "r", "i", "z", "a", "t", "i", "o", "n">>,
      labels |-> "task,epic-1,control-plane,api"],
     [id |-> <<"E", "1", "-", "T", "1", "1">>,
      title |-> <<"C", "I", " ", "p", "i", "p", "e", "l", "i", "n", "e">>,
      labels |-> "task,epic-1,control-plane,api"],
     [id |-> <<"E", "2", "-", "T", "1">>,
      title |-> <<"N", "o", "d", "e", " ", "r", "u", "n", "t", "i", "m", "e", " ", "s", "k", "e", "l", "e", "t", "o", "n">>,
      labels |-> "task,epic-2,node-runtime,connectors"],
     [id |-> <<"E", "3", "-", "T", "1">>,
      title |-> <<"A", "g", "e", "n", "t", "D", "e", "f", "i", "n", "i", "t", "i", "o", "n", " ", "m", "o", "d", "e", "l">>,
      labels |-> "task,epic-3,agent-definition,deployment"],
     [id |-> <<"E", "4", "-", "T", "1">>,
      title |-> <<"O", "T", "e", "l", " ", "C", "o", "l", "l", "e", "c", "t", "o", "r", " ", "d", "e", "p", "l", "o", "y", "m", "e", "n", "t">>,
      labels |-> "task,epic-4,observability,monitoring"],
     [id |-> <<"E", "5", "-", "T", "1">>,
      title |-> <<"N", "e", "x", "t", ".", "j", "s", " ", "s", "e", "t", "u", "p">>,
      labels |-> "task,epic-5,ui,frontend"],
     [id |-> <<"E", "6", "-", "T", "1">>,
      title |-> <<"L", "o", "c", "a", "l", " ", "e", "n", "v", "i", "r", "o", "n", "m", "e", "n", "t">>,
      labels |-> "task,epic-6,infrastructure,ci-cd"],
     [id |-> <<"E", "7", "-", "T", "1">>,
      title |-> <<"U", "n", "i", "t", " ", "t", "e", "s", "t", "s">>,
      labels |-> "task,epic-7,testing,validation"],
     [id |-> <<"E", "8", "-", "T", "1">>,
      title |-> <<"R", "E", "A", "D", "M", "E", " ", "&", " ", "Q", "u", "i", "c", "k", "s", "t", "a", "r", "t">>,
      labels |-> "task,epic-8,documentation,demo"]
    >>

\* the entries of the table the model processes
MissingTasks == SubSeq(missing_tasks, 1, MaxMissing)

\* create_github_issue, lines 32-60: the command for an entry of the table
MissingCmd(task) ==
    [title |-> <<"[">> \o task.id \o <<"]", " ">> \o task.title,
     body |-> <<task.id>>,
     label |-> <<task.labels>>]

\* main, line 80 to create_github_issue, line 63: the next entry is formatted
\* and the command started
MissingCall ==
    /\ pc = "missing" /\ task_i <= Len(MissingTasks)
    /\ LET task == MissingTasks[task_i] IN
       running' = <<Call("task", task.id, MissingCmd(task))>>
    /\ gh_total' = gh_total + 1
    /\ pc' = "missing_wait"
    /\ UNCHANGED <<tasks_yaml, tasks_data, phase_i, task_i, ms_i, created_issues,
                   milestone_urls, gh_calls, summary_file, summary_writes, console,
                   exit_status, run, phase_name, labels>>

\* main, lines 81-87, on the value create_github_issue returned
MissingRecorded(issues, task, ret) ==
    IF Truthy(ret) THEN Append(issues, IssueRecord(task, ret[1])) ELSE issues

\* create_github_issue, lines 63-67, and main, lines 82-87: the command exited
\* with status zero
MissingReturnOk ==
    /\ pc = "missing_wait"
    /\ \E out \in Stdouts(gh_total) :
         /\ gh_calls' = Append(gh_calls, Done(running[1], 0, out))
         /\ created_issues' = MissingRecorded(created_issues, MissingTasks[task_i],
                                              <<Strip(out)>>)
    /\ console' = console \o <<"Created issue">>
    /\ running' = <<>>
    /\ task_i' = task_i + 1
    /\ pc' = "missing"
    /\ UNCHANGED <<tasks_yaml, tasks_data, phase_i, ms_i, milestone_urls, gh_total,
                   summary_file, summary_writes, exit_status, run, phase_name, labels>>

\* create_github_issue, lines 68-72: the command exited with another status
MissingReturnFail ==
    /\ pc = "missing_wait"
    /\ gh_calls' = Append(gh_calls, Done(running[1], 1, <<>>))
    /\ created_issues' = MissingRecorded(created_issues, MissingTasks[task_i], <<>>)
    /\ console' = console \o <<"Error creating issue">>
    /\ running' = <<>>
    /\ task_i' = task_i + 1
    /\ pc' = "missing"
    /\ UNCHANGED <<tasks_yaml, tasks_data, phase_i, ms_i, milestone_urls, gh_total,
                   summary_file, summary_writes, exit_status, run, phase_name, labels>>

\* lines 94-97 raise: the file is absent, is not JSON, or has no created_issues
Unreadable(file) ==
    IF file = <<>> THEN TRUE
    ELSE IF ~file[1].parseable THEN TRUE
    ELSE "created_issues" \notin file[1].keys

\* lines 94-100: json.load, extend, json.dump
Extended(file, issues) ==
    <<[file[1] EXCEPT !.created_issues = @ \o issues]>>

\* main, lines 93-102: the summary file is read, extended and written back
UpdateSummary ==
    /\ pc = "missing" /\ task_i > Len(MissingTasks)
    /\ ~Unreadable(summary_file)
    /\ summary_file' = Extended(summary_file, created_issues)
    /\ summary_writes' = Append(summary_writes, Len(gh_calls))
    /\ console' = console \o <<"Updated github_issues_summary.json">>
    /\ exit_status' = 0
    /\ pc' = "done"
    /\ UNCHANGED <<tasks_yaml, tasks_data, phase_i, task_i, ms_i, created_issues,
                   milestone_urls, running, gh_calls, gh_total, run, phase_name, labels>>

\* main, lines 103-104: reading or extending raised; the error is printed
UpdateSummaryFail ==
    /\ pc = "missing" /\ task_i > Len(MissingTasks)
    /\ Unreadable(summary_file)
    /\ console' = console \o <<"Error updating summary">>
    /\ exit_status' = 0
    /\ pc' = "done"
    /\ UNCHANGED <<tasks_yaml, tasks_data, phase_i, task_i, ms_i, created_issues,
                   milestone_urls, running, gh_calls, gh_total, summary_file,
                   summary_writes, run, phase_name, labels>>

\* a file that is not JSON
Garbage ==
    [parseable |-> FALSE, keys |-> {},
     project |-> [project |-> <<>>, owner |-> <<>>],
     created_issues |-> <<>>, milestone_urls |-> <<>>]

\* a JSON object without the key created_issues
NoIssuesKey ==
    [parseable |-> TRUE, keys |-> {"project", "milestone_urls"},
     project |-> [project |-> ProjectText, owner |-> OwnerText],
     created_issues |-> <<>>, milestone_urls |-> <<Url(0)>>]

\* a summary create_issues.py wrote without any record
EmptySummary == Summary([project |-> ProjectText, owner |-> OwnerText], <<>>, <<>>)

InitMissing ==
    /\ pc = "missing"
    /\ tasks_yaml = <<>> /\ tasks_data = NoData
    /\ phase_i = 0 /\ task_i = 1 /\ ms_i = 0
    /\ created_issues = <<>> /\ milestone_urls = <<>>
    /\ running = <<>> /\ gh_calls = <<>> /\ gh_total = 0
    /\ summary_file \in {<<>>, <<Garbage>>, <<NoIssuesKey>>, <<EmptySummary>>, <<OldSummary>>}
    /\ summary_writes = <<>> /\ console = <<>>
    /\ exit_status = -1 /\ run = 1
    /\ phase_name = <<>> /\ labels = <<>>

NextMissing ==
    \/ MissingCall
    \/ MissingReturnOk
    \/ MissingReturnFail
    \/ UpdateSummary
    \/ UpdateSummaryFail

\* one run of create_missing_issues.py
SpecMissing == InitMissing /\ [][NextMissing]_vars

---------------------------------------------------------------------------
\* What the claims speak of.

Range(f) == {f[i] : i \in DOMAIN f}

\* the elements of a set of numbers, ascending
RECURSIVE Ascending(_)
Ascending(S) == IF S = {} THEN <<>> ELSE <<Min(S)>> \o Ascending(S \ {Min(S)})

\* the extracted tasks, phase by phase
AllTasks(td) == Flatten([p \in 1..Len(td.phases) |-> td.phases[p].tasks])

NumRecords(td) == Len(AllTasks(td)) + Len(td.milestones)

OfKind(calls, kind) == SelectSeq(calls, LAMBDA c : c.kind = kind)

\* the commands started so far, with and without a result
Started == [i \in 1..Len(gh_calls) |-> [kind |-> gh_calls[i].kind, id |-> gh_calls[i].id]]
           \o [i \in 1..Len(running) |-> [kind |-> running[i].kind, id |-> running[i].id]]

\* the records of a document, read off its lines
PhaseStarts(c) == {i \in 1..Len(c) : c[i].ind = 2 /\ c[i].key = "- name:"}
TaskStarts(c) == {i \in 1..Len(c) : c[i].ind = 6 /\ c[i].key = "- id:"}
MilestoneStarts(c) == {i \in 1..Len(c) : c[i].ind = 2 /\ c[i].key = "- id:"}

\* the line after the last line of the record that starts at line i
RecordEnd(c, i) ==
    LET nxt == {j \in (i + 1)..Len(c) : c[j].key \in {"- id:", "- name:", "milestones:"}}
    IN IF nxt = {} THEN Len(c) + 1 ELSE Min(nxt)

\* the values the record that starts at line i gives a key
FieldValues(c, i, key) == {c[j].v : j \in {k \in (i + 1)..(RecordEnd(c, i) - 1) : c[k].key = key}}

\* the line after the last line of the phase that starts at line i
PhaseEnd(c, i) ==
    LET nxt == {j \in (i + 1)..Len(c) : c[j].key \in {"- name:", "milestones:"}}
    IN IF nxt = {} THEN Len(c) + 1 ELSE Min(nxt)

\* the phase start a task start belongs to
PhaseOf(c, i) == CHOOSE s \in PhaseStarts(c) : s < i /\ i < PhaseEnd(c, s)

\* a document as the extraction claim describes it: every phase has a name,
\* every task and milestone an id and a title
WellFormed(c) ==
    /\ \A i \in PhaseStarts(c) : c[i].v # <<>>
    /\ \A i \in TaskStarts(c) \cup MilestoneStarts(c) :
         /\ c[i].v # <<>>
         /\ FieldValues(c, i, "title:") # {}
         /\ <<>> \notin FieldValues(c, i, "title:")

---------------------------------------------------------------------------
\* Claims about one run of create_issues.py.

\* the records of the task commands that exited with status zero, in order
RECURSIVE ZeroExitRecords(_, _)
ZeroExitRecords(calls, tasks) ==
    IF calls = <<>> \/ tasks = <<>> THEN <<>>
    ELSE (IF Head(calls).rc = 0
          THEN <<IssueRecord(Head(tasks), Strip(Head(calls).out))>>
          ELSE <<>>)
         \o ZeroExitRecords(Tail(calls), Tail(tasks))

\* C1: every task whose command exited with status zero has exactly one record
\* in created_issues, a task whose command exited otherwise has none and the
\* batch goes on, so created_issues, and the summary's list, is the records of
\* the tasks whose command exited with status zero, in document order.
C1_FailureIsolation ==
    LET calls == OfKind(gh_calls, "task")
        tasks == AllTasks(tasks_data)
    IN /\ Len(calls) <= Len(tasks)
       /\ created_issues = ZeroExitRecords(calls, tasks)
       /\ pc = "done" =>
            /\ Len(calls) = Len(tasks)
            /\ summary_file # <<>>
            /\ summary_file[1].created_issues = ZeroExitRecords(calls, tasks)

\* the references of the milestone commands that exited with status zero
RECURSIVE ZeroExitUrls(_)
ZeroExitUrls(calls) ==
    IF calls = <<>> THEN <<>>
    ELSE (IF Head(calls).rc = 0 THEN <<Strip(Head(calls).out)>> ELSE <<>>)
         \o ZeroExitUrls(Tail(calls))

\* milestone_urls is the references of the milestone commands that exited with
\* status zero, in document order; a failing command adds nothing and stops
\* nothing
MilestonesRecorded ==
    LET calls == OfKind(gh_calls, "milestone") IN
    /\ Len(calls) <= Len(tasks_data.milestones)
    /\ \A j \in 1..Len(calls) : calls[j].id = tasks_data.milestones[j].id
    /\ pc \in {"milestones", "milestone_wait", "done"} => milestone_urls = ZeroExitUrls(calls)
    /\ pc = "done" =>
         /\ Len(calls) = Len(tasks_data.milestones)
         /\ summary_file # <<>>
         /\ summary_file[1].milestone_urls = ZeroExitUrls(calls)

\* the result of a command, as far as recording can depend on it
SameResult(c, d) == c.rc = d.rc /\ (Strip(c.out) = <<>>) = (Strip(d.out) = <<>>)

\* a task and a milestone whose commands ended the same way are both recorded
\* or both not
SameCriterion ==
    \A c \in Range(OfKind(gh_calls, "task")), d \in Range(OfKind(gh_calls, "milestone")) :
        (pc = "done" /\ SameResult(c, d)) =>
            ((\E r \in Range(created_issues) : r.task_id = c.id)
             <=> (d.rc = 0 /\ Strip(d.out) \in Range(milestone_urls)))

\* C8: a milestone's reference is appended to milestone_urls exactly when its
\* command succeeded, by the criterion that decides whether a task is recorded;
\* a failing milestone adds nothing and stops nothing; milestone_urls is the
\* references of the successful milestones, in document order.
C8_MilestonesLikeTasks == MilestonesRecorded /\ SameCriterion

\* the extracted records in the order the claim gives: the tasks phase by phase,
\* then the milestones
ExpectedOrder(td) ==
    [i \in 1..Len(AllTasks(td)) |-> [kind |-> "task", id |-> AllTasks(td)[i].id]]
    \o [j \in 1..Len(td.milestones) |-> [kind |-> "milestone", id |-> td.milestones[j].id]]

\* C9: every extracted task and milestone is submitted exactly once per run, one
\* command at a time, the tasks phase by phase in document order, and every
\* task before every milestone, whatever the earlier commands returned.
C9_SubmissionOrder ==
    tasks_yaml # <<>> /\ pc # "start" =>
        /\ Len(Started) <= Len(ExpectedOrder(tasks_data))
        /\ Started = SubSeq(ExpectedOrder(tasks_data), 1, Len(Started))
        /\ Len(running) <= 1
        /\ gh_total = Len(Started)
        /\ pc = "done" => (running = <<>> /\ Len(gh_calls) = Len(ExpectedOrder(tasks_data)))

\* a run of two phases and a milestone that is over, with a failed and a
\* successful command
C9_Witness ==
    /\ pc = "done"
    /\ Len(tasks_data.phases) >= 2
    /\ \A p \in 1..Len(tasks_data.phases) : tasks_data.phases[p].tasks # <<>>
    /\ tasks_data.milestones # <<>>
    /\ \E c \in Range(gh_calls) : c.rc # 0
    /\ \E c \in Range(gh_calls) : c.rc = 0

\* what holds of a run whose document cannot be read
FatalState ==
    /\ pc \in {"start", "exited"}
    /\ running = <<>> /\ gh_calls = <<>> /\ gh_total = 0
    /\ summary_writes = <<>>
    /\ pc = "exited" => (exit_status > 0 /\ console = <<"Error loading tasks file">>)

\* C3: when the document cannot be read, the run ends at extraction with a
\* status that is not zero, after printing an error; no command is started and
\* the summary file is neither written nor changed.
C3_FatalPath ==
    /\ [](tasks_yaml = <<>> => FatalState)
    /\ [][tasks_yaml = <<>> => summary_file' = summary_file]_vars

\* the run of a missing document is over and the summary of an earlier run is
\* there
C3_Witness == tasks_yaml = <<>> /\ pc = "exited" /\ summary_file = <<OldSummary>>

\* a run that ended normally: status zero, the summary written once, after the
\* last command
EndedWell ==
    /\ exit_status = 0
    /\ running = <<>>
    /\ Len(gh_calls) = NumRecords(tasks_data)
    /\ summary_writes = <<Len(gh_calls)>>
    /\ summary_file = <<Summary(ProjectInfo(tasks_data), created_issues, milestone_urls)>>

\* C4: once extraction has succeeded, whatever the commands return, the run
\* ends, with the summary written exactly once after the last command and with
\* status zero; a failing command never changes the exit status.
C4_Termination ==
    /\ (pc = "phases") ~> (pc = "done")
    /\ [](pc = "done" => EndedWell)
    /\ [](tasks_yaml # <<>> => exit_status \in {-1, 0})

\* a run that is over and in which every command failed
C4_Witness ==
    /\ pc = "done"
    /\ Len(gh_calls) >= 3
    /\ \A c \in Range(gh_calls) : c.rc # 0
    /\ OfKind(gh_calls, "milestone") # <<>>

---------------------------------------------------------------------------
\* Claims about extraction.

Extracted == pc = "phases" /\ tasks_yaml # <<>>

\* the number of task records the document holds in each of its phases
DocTaskCounts(c) ==
    LET ps == Ascending(PhaseStarts(c)) IN
    [k \in 1..Len(ps) |->
        Cardinality({i \in TaskStarts(c) : ps[k] < i /\ i < PhaseEnd(c, ps[k])})]

\* C2: for a well-formed document, the numbers of extracted phases, of extracted
\* tasks in each phase and of extracted milestones are the document's numbers
\* of records, the first record after each section header included.
C2_ExtractionComplete ==
    (Extracted /\ WellFormed(tasks_yaml[1])) =>
        LET c == tasks_yaml[1] IN
        /\ Len(tasks_data.phases) = Cardinality(PhaseStarts(c))
        /\ [k \in 1..Len(tasks_data.phases) |-> Len(tasks_data.phases[k].tasks)]
             = DocTaskCounts(c)
        /\ Len(tasks_data.milestones) = Cardinality(MilestoneStarts(c))

\* the last line before line i that is not blank (line 1 is never a record's)
Before(c, i) == CHOOSE j \in 1..(i - 1) :
                    /\ ~IsBlank(c[j])
                    /\ \A k \in (j + 1)..(i - 1) : IsBlank(c[k])

\* a candidate record: a record the extractor builds a record from.  The record
\* that follows its section header, with blank lines at most in between, is in
\* the block the loops skip, and is none; nor is a task of such a phase.
CandidateStart(c, i, header) == c[Before(c, i)].key # header

CandidateTasks(c) ==
    {i \in TaskStarts(c) :
        CandidateStart(c, i, "tasks:") /\ CandidateStart(c, PhaseOf(c, i), "phases:")}

CandidateMilestones(c) == {i \in MilestoneStarts(c) : CandidateStart(c, i, "milestones:")}

\* the record that starts at line i is written with an id and with a title
BothWritten(c, i) ==
    /\ c[i].v # <<>>
    /\ FieldValues(c, i, "title:") # {}
    /\ <<>> \notin FieldValues(c, i, "title:")

\* the extracted field is the written one, and empty when none is written
FieldIs(c, i, key, value) ==
    IF FieldValues(c, i, key) = {} THEN value = <<>> ELSE value \in FieldValues(c, i, key)

\* C6: every extracted task and milestone has an id and a title that are not
\* empty: a candidate whose id or title is empty after extraction is left out,
\* and a candidate with both is kept, also without its optional fields, which
\* are then the empty string.
C6_RequiredFields ==
    Extracted =>
        LET c == tasks_yaml[1]
            ts == Range(AllTasks(tasks_data))
            ms == Range(tasks_data.milestones)
        IN /\ \A r \in ts \cup ms : r.id # <<>> /\ r.title # <<>>
           /\ \A r \in ts : \E i \in CandidateTasks(c) :
                  c[i].v = r.id /\ FieldValues(c, i, "title:") # {}
           /\ \A r \in ms : \E i \in CandidateMilestones(c) :
                  c[i].v = r.id /\ FieldValues(c, i, "title:") # {}
           /\ \A i \in CandidateTasks(c) : BothWritten(c, i) =>
                  \E r \in ts : /\ r.id = c[i].v
                                /\ r.title \in FieldValues(c, i, "title:")
                                /\ FieldIs(c, i, "description:", r.description)
           /\ \A i \in CandidateMilestones(c) : BothWritten(c, i) =>
                  \E r \in ms : /\ r.id = c[i].v
                                /\ r.title \in FieldValues(c, i, "title:")
                                /\ FieldIs(c, i, "deliverables:", r.deliverables)
                                /\ FieldIs(c, i, "date:", r.date)

\* a document with a candidate task without a title line, which is left out, and
\* candidates without optional fields, which are kept
C6_Witness ==
    /\ Extracted
    /\ \E i \in CandidateTasks(tasks_yaml[1]) :
         tasks_yaml[1][i].v # <<>> /\ FieldValues(tasks_yaml[1], i, "title:") = {}
    /\ \E r \in Range(AllTasks(tasks_data)) : r.description = <<>>
    /\ \E r \in Range(tasks_data.milestones) : r.deliverables = <<>> /\ r.date = <<>>

---------------------------------------------------------------------------
\* Claims about the labels.

Labelled == pc = "labelled"

HasMarker(k) == Contains(Epic(k), phase_name)

NoMarker == \A k \in 1..8 : ~HasMarker(k)

\* the marker that wins: the first of the table the name holds
Wins(k) == HasMarker(k) /\ \A j \in 1..(k - 1) : ~HasMarker(j)

EpicLabel(k) == "epic-" \o ToString(k)

Epic3Labels == {"task", "epic-3", "agent-definition", "deployment"}

\* the markers are tested in the order of the table and the first match decides
FirstMatchWins == \A k \in 1..8 : (EpicLabel(k) \in Range(labels)) <=> Wins(k)

\* C5 as stated: the first match wins; every phase name that holds "Epic 3" gets
\* exactly the labels task, epic-3, agent-definition, deployment; every phase
\* name without a marker gets exactly the label task.
C5_LabelMapping ==
    Labelled =>
        /\ FirstMatchWins
        /\ HasMarker(3) => Range(labels) = Epic3Labels
        /\ NoMarker => Range(labels) = {"task"}

\* C5 as amended: the first match wins; every phase name that holds "Epic 3" and
\* neither "Epic 1" nor "Epic 2" gets exactly the labels task, epic-3,
\* agent-definition, deployment; every phase name without a marker gets exactly
\* the label task.
C5_LabelMappingFirstMatch ==
    Labelled =>
        /\ FirstMatchWins
        /\ Wins(3) => Range(labels) = Epic3Labels
        /\ NoMarker => Range(labels) = {"task"}

\* a labelled name in which "Epic 3" wins over a later marker
C5_Witness == Labelled /\ Wins(3) /\ HasMarker(8) /\ Range(labels) = Epic3Labels

---------------------------------------------------------------------------
\* Claims about runs one after the other.

\* C7: with a command that always exits with status zero, each run submits
\* every extracted record again (run * N commands after the run-th run of N
\* records), and the summary file after a run holds that run's records only.
C7_NoIdempotence ==
    pc = "done" =>
        /\ Len(gh_calls) = NumRecords(tasks_data)
        /\ gh_total = run * NumRecords(tasks_data)
        /\ summary_file = <<Summary(ProjectInfo(tasks_data), created_issues, milestone_urls)>>
        /\ Len(summary_file[1].milestone_urls) = Len(tasks_data.milestones)
        /\ \A r \in Range(summary_file[1].created_issues) :
              \E c \in Range(gh_calls) :
                  c.kind = "task" /\ c.id = r.task_id /\ Strip(c.out) = r.url

\* the second run is over and left records of tasks and of milestones
C7_Witness ==
    /\ pc = "done" /\ run = 2
    /\ Len(created_issues) >= 2
    /\ milestone_urls # <<>>
    /\ gh_total >= 6

---------------------------------------------------------------------------
\* Claims about create_missing_issues.py.

\* a summary file that can be read, parsed and extended
Usable(file) == file # <<>> /\ file[1].parseable /\ "created_issues" \in file[1].keys

\* the file with the records of the entries whose command exited with status
\* zero appended to its created_issues, and nothing else changed
WithSubmitted(file) ==
    <<[file[1] EXCEPT !.created_issues = @ \o ZeroExitRecords(gh_calls, MissingTasks)]>>

\* C10: the only change create_missing_issues.py makes to the summary file is
\* to append, once every command has returned, the records of the entries that
\* were submitted successfully, in table order, to created_issues; the stored
\* entries stay as they are, in front, and project and milestone_urls stay;
\* a file that cannot be read or parsed is neither created nor changed, and the
\* run ends normally all the same.
C10_SummaryFrame ==
    /\ [][IF pc = "missing" /\ pc' = "done" /\ Usable(summary_file)
          THEN /\ Len(gh_calls) = Len(MissingTasks)
               /\ running = <<>>
               /\ summary_file' = WithSubmitted(summary_file)
          ELSE summary_file' = summary_file]_vars
    /\ [](pc = "done" => exit_status = 0)

====
